---- MODULE Spec2Model ----
(***************************************************************************)
(* Scoring, matching and recommendation engine of the learning platform.   *)
(*                                                                         *)
(* Numbers.  The program computes with Python floats.  The model computes  *)
(* with exact fixed-point integers:                                        *)
(*   metric values       in tenths          (1.0  = Unit   = 10)           *)
(*   comparator weights  in 1/300           (1.0  = WUnit  = 300)          *)
(*   comparator scores   in 1/3000          (1.0  = Unit * WUnit)          *)
(* Every division the modelled inputs reach is exact in these units, so    *)
(* the model is the real-number semantics of the code; float rounding in   *)
(* the last binary digit is not represented.                               *)
(***************************************************************************)
EXTENDS Integers, Sequences, FiniteSets, TLC

VARIABLES
    user_metrics,     \* compare_to_expert argument user_metrics
    expert_pattern,   \* compare_to_expert argument expert_pattern
    skill_type,       \* compare_to_expert argument skill_type
    comparison,       \* value returned by the last compare_to_expert call
    previous,         \* value returned by the call before it
    cmp_op,           \* which operation produced the state
    expert_patterns,  \* rows of the ExpertPattern table, in table order
    experts,          \* ids of the rows of the Expert table
    top_n,            \* find_best_expert_matches argument top_n
    matches,          \* value returned by find_best_expert_matches
    recent_comparisons,   \* expert_id of the UserComparison rows of the last 30 days
    num_recommendations,  \* get_personalized_recommendations argument
    recommendation,       \* outcome of get_personalized_recommendations
    sessions,         \* rows of the FeedbackSession table, by id
    progress,         \* the RealTimeProgress row of the user and skill type
    suggestions,      \* rows of the ImprovementSuggestion table, in commit order
    performance_metrics,  \* PerformanceMetric batches, one per analysed chunk, in commit order
    requests,         \* analyze_live_video_chunk requests, in arrival order
    end_response,     \* response to the latest end_feedback_session request
    expert_feedback,  \* value returned by generate_expert_feedback
    analysis_results, \* the (metric_name, value) entries of one chunk's analysis
    feedback,         \* the RealTimeFeedback built from analysis_results
    analysis_data,    \* extract_user_metrics argument analysis_data, by field path
    active_connections,  \* ConnectionManager.active_connections
    broadcasts,       \* the broadcast_to_user calls in progress
    next_websocket    \* identity of the next WebSocket object to connect

cmp_vars == <<expert_pattern, comparison, previous, expert_feedback>>
match_vars == <<expert_patterns, experts, top_n, matches>>
rec_vars == <<recent_comparisons, num_recommendations, recommendation>>
rt_vars == <<sessions, progress, suggestions, performance_metrics, requests, end_response>>
cls_vars == <<analysis_results, feedback>>
ext_vars == <<analysis_data>>
ws_vars == <<active_connections, broadcasts, next_websocket>>

vars == <<user_metrics, skill_type, cmp_op, cmp_vars, match_vars, rec_vars, rt_vars, cls_vars, ext_vars, ws_vars>>

----------------------------------------------------------------------------
(* Fixed-point units and the defaults of compare_to_expert.                *)

Unit == 10
WUnit == 300
ExpertDefault == 5
WeightDefault == 30

Abs(x) == IF x < 0 THEN -x ELSE x

NoResult == [none |-> TRUE]

Min(a, b) == IF a <= b THEN a ELSE b

(* sum(f[x] for x in S) *)
RECURSIVE SumOver(_, _)
SumOver(S, f) ==
    IF S = {} THEN 0
    ELSE LET x == CHOOSE y \in S : TRUE IN f[x] + SumOver(S \ {x}, f)

(* The parts of the state an operation of another component never touches. *)
CmpIdle ==
    /\ expert_pattern = <<>> /\ comparison = NoResult /\ previous = NoResult
    /\ expert_feedback = NoResult
MatchIdle == expert_patterns = <<>> /\ experts = {} /\ top_n = 0 /\ matches = NoResult
RecIdle == recent_comparisons = <<>> /\ num_recommendations = 0 /\ recommendation = NoResult
RtIdle ==
    /\ sessions = <<>> /\ progress = NoResult /\ suggestions = <<>>
    /\ performance_metrics = <<>> /\ requests = <<>> /\ end_response = NoResult
ClsIdle == analysis_results = <<>> /\ feedback = NoResult
ExtIdle == analysis_data = <<>>
WsIdle == active_connections = <<>> /\ broadcasts = <<>> /\ next_websocket = 0

----------------------------------------------------------------------------
(* PatternComparator.__init__: the weight tables, in 1/300.                *)

skill_weights ==
    [s \in {"Public Speaking", "Sports/Athletics", "Music/Instrument",
            "Cooking", "Dance/Fitness"} |->
       CASE s = "Public Speaking" ->
              ( "voice_modulation" :> 60 @@ "pause_timing" :> 45 @@
                "gesture_coordination" :> 45 @@ "emotional_resonance" :> 60 @@
                "eye_contact" :> 45 @@ "speaking_pace" :> 45 )
         [] s = "Sports/Athletics" ->
              ( "footwork_precision" :> 60 @@ "technique_execution" :> 75 @@
                "balance" :> 45 @@ "timing" :> 60 @@ "coordination" :> 60 )
         [] s = "Music/Instrument" ->
              ( "rhythm_accuracy" :> 75 @@ "timing_precision" :> 60 @@
                "finger_technique" :> 60 @@ "musical_expression" :> 45 @@
                "tempo_control" :> 30 @@ "dynamics" :> 30 )
         [] s = "Cooking" ->
              ( "knife_skills" :> 75 @@ "timing_precision" :> 60 @@
                "technique_execution" :> 60 @@ "efficiency" :> 45 @@
                "safety_awareness" :> 30 @@ "multitasking" :> 30 )
         [] s = "Dance/Fitness" ->
              ( "movement_precision" :> 75 @@ "balance" :> 60 @@
                "rhythm_accuracy" :> 60 @@ "flexibility" :> 45 @@
                "coordination" :> 60 )]

WeightsFor_NoFallback(um, st) ==
    IF st \in DOMAIN skill_weights THEN skill_weights[st] ELSE <<>>

WeightsFor_UnitWeights(um, st) ==
    IF st \in DOMAIN skill_weights THEN skill_weights[st] ELSE [k \in DOMAIN um |-> WUnit]

(* weights = self.skill_weights.get(skill_type, {}); equal weighting       *)
(* 1.0/len(user_metrics) over the user's keys when that is empty.          *)
WeightsFor(um, st) ==
    IF st \in DOMAIN skill_weights
    THEN skill_weights[st]
    ELSE [k \in DOMAIN um |-> WUnit \div Cardinality(DOMAIN um)]

ExpertValue_DefaultZero(ep, metric) ==
    IF metric \in DOMAIN ep THEN ep[metric] ELSE 0

(* expert_pattern.get(metric, 0.5) *)
ExpertValue(ep, metric) ==
    IF metric \in DOMAIN ep THEN ep[metric] ELSE ExpertDefault

(* weights.get(metric, 0.1) *)
WeightOf(weights, metric) ==
    IF metric \in DOMAIN weights THEN weights[metric] ELSE WeightDefault

Similarity_NoAbs(user_value, expert_value) == Unit - (user_value - expert_value)

Similarity_OneSided(user_value, expert_value) ==
    IF expert_value > user_value THEN Unit - (expert_value - user_value) ELSE Unit

(* similarity = 1.0 - abs(user_value - expert_value) *)
Similarity(user_value, expert_value) == Unit - Abs(user_value - expert_value)

(* One iteration of the loop: the metric_comparisons[metric] entry.        *)
MetricComparison(um, ep, weights, metric) ==
    LET user_value   == um[metric]
        expert_value == ExpertValue(ep, metric)
        weight       == WeightOf(weights, metric)
        similarity   == Similarity(user_value, expert_value)
    IN  [ user_value     |-> user_value,
          expert_value   |-> expert_value,
          similarity     |-> similarity,
          weight         |-> weight,
          weighted_score |-> similarity * weight,
          gap            |-> expert_value - user_value ]

(* total_score += weighted_score over the iterated metrics.                *)
RECURSIVE TotalScore(_, _)
TotalScore(breakdown, metrics) ==
    IF metrics = {} THEN 0
    ELSE LET m == CHOOSE x \in metrics : TRUE
         IN  breakdown[m].weighted_score + TotalScore(breakdown, metrics \ {m})

(* compare_to_expert: (total_score, comparison_data).                      *)
compare_to_expert(um, ep, st) ==
    LET weights   == WeightsFor(um, st)
        breakdown == [m \in DOMAIN um |-> MetricComparison(um, ep, weights, m)]
    IN  [ overall_similarity |-> TotalScore(breakdown, DOMAIN um),
          metric_breakdown   |-> breakdown,
          skill_type         |-> st ]

(* The metrics _get_specific_recommendation has a text for.                *)
specific_recommendations ==
    {"voice_modulation", "pause_timing", "gesture_coordination", "eye_contact",
     "speaking_pace", "footwork_precision", "technique_execution",
     "rhythm_accuracy", "knife_skills", "movement_precision"}

(* if similarity > 0.8 *)
IsStrength(data) == data.similarity > 8

IsImprovementArea_EitherSign(data) == ~IsStrength(data) /\ Abs(data.gap) > 2

(* elif gap > 0.2 *)
IsImprovementArea(data) == ~IsStrength(data) /\ data.gap > 2

(* generate_expert_feedback: the entries of the lists it builds.  The      *)
(* lists are in the breakdown's dictionary order, which a metric vector of *)
(* the model does not carry, so each list is given as the set of its       *)
(* entries; message texts and expert_insights are left out.                *)
generate_expert_feedback(comparison_data) ==
    LET breakdown == comparison_data.metric_breakdown
        improve   == {m \in DOMAIN breakdown : IsImprovementArea(breakdown[m])}
    IN  [ similarity_to_expert |-> comparison_data.overall_similarity,
          strengths |->
              { [metric |-> m, expert_level |-> breakdown[m].expert_value] :
                    m \in {k \in DOMAIN breakdown : IsStrength(breakdown[k])} },
          improvement_areas |->
              { [metric        |-> m,
                 current_level |-> breakdown[m].user_value,
                 expert_level  |-> breakdown[m].expert_value,
                 gap           |-> breakdown[m].gap] : m \in improve },
          specific_recommendations |->
              { [metric     |-> m,
                 difficulty |-> IF breakdown[m].gap > 3
                                THEN "intermediate" ELSE "beginner"] :
                    m \in improve \cap specific_recommendations } ]

----------------------------------------------------------------------------
(* Inputs of the comparator.                                               *)

SkillTypes == {"Public Speaking", "Sports/Athletics", "Glassblowing"}

MetricNames == {"speaking_pace", "eye_contact", "balance"}
MetricValues == {0, 3, 9, 10}

FullMetricNames == DOMAIN skill_weights["Sports/Athletics"] \cup {"eye_contact"}
FullMetricValues == {0, 10}

MetricVectors == UNION {[K -> MetricValues] : K \in SUBSET MetricNames}
FullMetricVectors == [FullMetricNames -> FullMetricValues]

CmpInit ==
    /\ user_metrics \in MetricVectors
    /\ expert_pattern \in MetricVectors
    /\ skill_type \in SkillTypes
    /\ comparison = NoResult
    /\ previous = NoResult
    /\ expert_feedback = NoResult
    /\ cmp_op = "input"
    /\ MatchIdle /\ RecIdle /\ RtIdle /\ ClsIdle /\ ExtIdle /\ WsIdle

CmpFullInit ==
    /\ user_metrics \in FullMetricVectors
    /\ expert_pattern \in FullMetricVectors
    /\ skill_type \in SkillTypes
    /\ comparison = NoResult
    /\ previous = NoResult
    /\ expert_feedback = NoResult
    /\ cmp_op = "input"
    /\ MatchIdle /\ RecIdle /\ RtIdle /\ ClsIdle /\ ExtIdle /\ WsIdle

(* A call compare_to_expert(user_metrics, expert_pattern, skill_type).     *)
Compare ==
    /\ cmp_op = "input"
    /\ comparison' = compare_to_expert(user_metrics, expert_pattern, skill_type)
    /\ cmp_op' = "compare"
    /\ UNCHANGED <<user_metrics, expert_pattern, skill_type, previous, expert_feedback,
                   match_vars, rec_vars, rt_vars, cls_vars, ext_vars, ws_vars>>

(* A second call with the two vectors exchanged.                           *)
CompareSwapped ==
    /\ cmp_op = "compare"
    /\ user_metrics' = expert_pattern
    /\ expert_pattern' = user_metrics
    /\ comparison' = compare_to_expert(user_metrics', expert_pattern', skill_type)
    /\ previous' = comparison
    /\ cmp_op' = "swapped"
    /\ UNCHANGED <<skill_type, expert_feedback, match_vars, rec_vars, rt_vars, cls_vars, ext_vars, ws_vars>>

(* A second call in which one user metric has been given another value.    *)
CompareChanged ==
    /\ cmp_op = "compare"
    /\ \E m \in DOMAIN user_metrics, v \in MetricValues :
         /\ v # user_metrics[m]
         /\ user_metrics' = [user_metrics EXCEPT ![m] = v]
    /\ comparison' = compare_to_expert(user_metrics', expert_pattern, skill_type)
    /\ previous' = comparison
    /\ cmp_op' = "changed"
    /\ UNCHANGED <<expert_pattern, skill_type, expert_feedback, match_vars, rec_vars, rt_vars, cls_vars, ext_vars, ws_vars>>

CmpNext == Compare \/ CompareSwapped \/ CompareChanged

(* Vectors whose gaps reach the 0.2 boundary of generate_expert_feedback.  *)
FeedbackMetricNames == {"eye_contact", "balance"}
FeedbackMetricValues == {0, 7, 8, 9, 10}
FeedbackMetricVectors ==
    UNION {[K -> FeedbackMetricValues] : K \in SUBSET FeedbackMetricNames}

FeedbackInit ==
    /\ user_metrics \in FeedbackMetricVectors
    /\ expert_pattern \in FeedbackMetricVectors
    /\ skill_type \in SkillTypes
    /\ comparison = NoResult
    /\ previous = NoResult
    /\ expert_feedback = NoResult
    /\ cmp_op = "input"
    /\ MatchIdle /\ RecIdle /\ RtIdle /\ ClsIdle /\ ExtIdle /\ WsIdle

(* A call generate_expert_feedback(comparison_data, match) on the          *)
(* comparison_data of the last comparison.                                 *)
GenerateFeedback ==
    /\ cmp_op = "compare"
    /\ expert_feedback' = generate_expert_feedback(comparison)
    /\ cmp_op' = "feedback"
    /\ UNCHANGED <<user_metrics, expert_pattern, skill_type, comparison, previous,
                   match_vars, rec_vars, rt_vars, cls_vars, ext_vars, ws_vars>>

FeedbackNext == Compare \/ GenerateFeedback

SpecFeedback == FeedbackInit /\ [][FeedbackNext]_vars

SpecCmp == CmpInit /\ [][CmpNext]_vars

SpecCmpFull == CmpFullInit /\ [][Compare]_vars

----------------------------------------------------------------------------
(* Expert Matcher: PatternComparator.find_best_expert_matches.             *)

MaxPatterns == 3
MaxTopN == 3

(* list.sort(key=..., reverse=True): descending and stable.  Element i     *)
(* lands after every element with a larger key and after the earlier       *)
(* elements with an equal key.                                             *)
SortAscending(s, key) ==
    LET n == Len(s)
        pos(i) == 1 + Cardinality({j \in 1..n :
                        \/ key[j] < key[i]
                        \/ (key[j] = key[i] /\ j < i)})
    IN  [p \in 1..n |-> s[CHOOSE i \in 1..n : pos(i) = p]]

SortDescending_TiesReversed(s, key) ==
    LET n == Len(s)
        pos(i) == 1 + Cardinality({j \in 1..n :
                        \/ key[j] > key[i]
                        \/ (key[j] = key[i] /\ j > i)})
    IN  [p \in 1..n |-> s[CHOOSE i \in 1..n : pos(i) = p]]

SortDescending(s, key) ==
    LET n == Len(s)
        pos(i) == 1 + Cardinality({j \in 1..n :
                        \/ key[j] > key[i]
                        \/ (key[j] = key[i] /\ j < i)})
    IN  [p \in 1..n |-> s[CHOOSE i \in 1..n : pos(i) = p]]

Prefix_All(s, n) == s

(* lst[:n] for n >= 0 *)
Prefix(s, n) == SubSeq(s, 1, Min(n, Len(s)))

PatternsOfSkill_NoFilter(st) == expert_patterns

(* db.query(ExpertPattern).filter(skill_type == st).all() *)
PatternsOfSkill(st) == SelectSeq(expert_patterns, LAMBDA r : r.skill_type = st)

(* db.query(Expert).filter(Expert.id == pattern.expert_id).first() is not None *)
ExpertExists(expert_id) == expert_id \in experts

(* The match built for one pattern whose expert exists.                    *)
MatchOf(um, st, pattern) ==
    [ expert_id        |-> pattern.expert_id,
      pattern_id       |-> pattern.id,
      similarity_score |-> compare_to_expert(um, pattern.pattern_data, st).overall_similarity ]

find_best_expert_matches(um, st, n) ==
    LET found   == SelectSeq(PatternsOfSkill(st), LAMBDA r : ExpertExists(r.expert_id))
        unsorted == [i \in 1..Len(found) |-> MatchOf(um, st, found[i])]
        sorted  == SortDescending(unsorted,
                       [i \in 1..Len(unsorted) |-> unsorted[i].similarity_score])
    IN  Prefix(sorted, n)

ExpertIds == {1, 2}
PatternSkills == {"Public Speaking", "Sports/Athletics"}
PatternData == [{"eye_contact"} -> {0, 10}]
MatchUserVectors == [{"eye_contact"} -> {0, 10}] \cup {<<>>}

(* Tables whose rows carry their primary key, the position in the table.   *)
PatternTables ==
    UNION { { t \in [1..n -> [id : 1..n, expert_id : ExpertIds,
                              skill_type : PatternSkills, pattern_data : PatternData]] :
                \A i \in 1..n : t[i].id = i } : n \in 0..MaxPatterns }

MatchInit ==
    /\ user_metrics \in MatchUserVectors
    /\ skill_type \in SkillTypes
    /\ expert_patterns \in PatternTables
    /\ experts \in SUBSET ExpertIds
    /\ top_n \in 0..MaxTopN
    /\ matches = NoResult
    /\ cmp_op = "input"
    /\ CmpIdle /\ RecIdle /\ RtIdle /\ ClsIdle /\ ExtIdle /\ WsIdle

(* A call find_best_expert_matches(user_metrics, skill_type, top_n).       *)
FindBestMatches ==
    /\ cmp_op = "input"
    /\ matches' = find_best_expert_matches(user_metrics, skill_type, top_n)
    /\ cmp_op' = "matched"
    /\ UNCHANGED <<user_metrics, skill_type, cmp_vars, expert_patterns, experts, top_n,
                   rec_vars, rt_vars, cls_vars, ext_vars, ws_vars>>

SpecMatch == MatchInit /\ [][FindBestMatches]_vars

(* C10: the list returned by find_best_expert_matches is in non-increasing *)
(* order of similarity_score and has min(top_n, number of patterns of the  *)
(* skill type whose expert record exists) entries, never more than top_n.  *)
C10_SortedAndTruncated ==
    cmp_op = "matched" =>
      LET eligible == {i \in 1..Len(expert_patterns) :
                         /\ expert_patterns[i].skill_type = skill_type
                         /\ expert_patterns[i].expert_id \in experts}
      IN  /\ \A i, j \in 1..Len(matches) :
                i < j => matches[i].similarity_score >= matches[j].similarity_score
          /\ Len(matches) = (IF top_n <= Cardinality(eligible)
                             THEN top_n ELSE Cardinality(eligible))
          /\ Len(matches) <= top_n

C10_Witness ==
    /\ cmp_op = "matched"
    /\ top_n = 2
    /\ Len(expert_patterns) = 3
    /\ \A i \in 1..3 : /\ expert_patterns[i].skill_type = skill_type
                       /\ expert_patterns[i].expert_id \in experts
    /\ Len(matches) = 2
    /\ matches[1].pattern_id = 3
    /\ matches[1].similarity_score > matches[2].similarity_score

----------------------------------------------------------------------------
(* Properties of compare_to_expert.                                        *)

KnownSkills == {"Public Speaking", "Sports/Athletics", "Music/Instrument",
                "Cooking", "Dance/Fitness"}

(* The contribution of one metric as section 4.1 of the specification      *)
(* words it, from the call's arguments alone.                              *)
StatedContribution(um, ep, st, m) ==
    LET e == IF m \in DOMAIN ep THEN ep[m] ELSE 5
        w == IF st \in KnownSkills
             THEN (IF m \in DOMAIN skill_weights[st] THEN skill_weights[st][m] ELSE 30)
             ELSE 300 \div Cardinality(DOMAIN um)
        d == IF um[m] >= e THEN um[m] - e ELSE e - um[m]
    IN  (10 - d) * w

ScenarioUser == ("speaking_pace" :> 10 @@ "eye_contact" :> 3)
ScenarioExpert == ("speaking_pace" :> 10 @@ "eye_contact" :> 9)

(* C1: the overall score returned by compare_to_expert is the sum over the *)
(* user's metric keys of (1 - |user - expert|) * weight, the expert value  *)
(* defaulting to 0.5 and the weight to 0.1; the scenario of section 8      *)
(* (weights 0.5/0.5) yields similarities 1.0 and 0.4 and overall 0.7.      *)
C1_OverallIsWeightedSum ==
    cmp_op = "compare" =>
      /\ comparison.overall_similarity =
           SumOver(DOMAIN user_metrics,
                   [m \in DOMAIN user_metrics |->
                      StatedContribution(user_metrics, expert_pattern, skill_type, m)])
      /\ ( /\ user_metrics = ScenarioUser
           /\ expert_pattern = ScenarioExpert
           /\ skill_type = "Glassblowing" )
         => /\ comparison.metric_breakdown["speaking_pace"].similarity = 10
            /\ comparison.metric_breakdown["eye_contact"].similarity = 4
            /\ comparison.metric_breakdown["speaking_pace"].weight = 150
            /\ comparison.overall_similarity = 2100

C1_Witness ==
    /\ cmp_op = "compare"
    /\ user_metrics = ScenarioUser
    /\ expert_pattern = ScenarioExpert
    /\ skill_type = "Glassblowing"
    /\ comparison.overall_similarity = 2100

(* C2: for metric values in [0,1] the overall similarity returned by       *)
(* compare_to_expert lies in [0,1], whatever the key set and skill type.   *)
C2_OverallInUnitRange ==
    cmp_op = "compare" =>
      /\ comparison.overall_similarity >= 0
      /\ comparison.overall_similarity <= 3000

(* C7 as stated: exchanging the two vectors leaves the overall score       *)
(* unchanged, whatever their key sets.                                     *)
C7_SymmetricAnyKeys ==
    cmp_op = "swapped" =>
      comparison.overall_similarity = previous.overall_similarity

(* C7: exchanging two vectors that have the same key set leaves the        *)
(* overall score unchanged.                                                *)
C7_SymmetricSameKeys ==
    (cmp_op = "swapped" /\ DOMAIN user_metrics = DOMAIN expert_pattern) =>
      comparison.overall_similarity = previous.overall_similarity

C7_Witness ==
    /\ cmp_op = "swapped"
    /\ DOMAIN user_metrics = DOMAIN expert_pattern
    /\ Cardinality(DOMAIN user_metrics) = 2
    /\ \A m \in DOMAIN user_metrics : user_metrics[m] < expert_pattern[m]
    /\ comparison.overall_similarity = previous.overall_similarity
    /\ comparison.overall_similarity < 3000

(* C8: under the equal-weighting fallback of an unknown skill type, a      *)
(* non-empty vector compared with itself scores 1.0 overall, and every     *)
(* metric has similarity 1 and gap 0.                                      *)
C8_SelfSimilarityIsOne ==
    ( /\ cmp_op = "compare"
      /\ skill_type \notin KnownSkills
      /\ expert_pattern = user_metrics
      /\ DOMAIN user_metrics # {} )
    => /\ comparison.overall_similarity = 3000
       /\ \A m \in DOMAIN user_metrics :
            /\ comparison.metric_breakdown[m].similarity = 10
            /\ comparison.metric_breakdown[m].gap = 0

C8_Witness ==
    /\ cmp_op = "compare"
    /\ skill_type \notin KnownSkills
    /\ expert_pattern = user_metrics
    /\ Cardinality(DOMAIN user_metrics) = 3
    /\ comparison.overall_similarity = 3000

(* The distance |user - expert| of metric m for a user vector, from the    *)
(* call's arguments.                                                       *)
StatedDistance(um, ep, m) ==
    LET e == IF m \in DOMAIN ep THEN ep[m] ELSE 5
    IN  IF um[m] >= e THEN um[m] - e ELSE e - um[m]

(* C9: with everything else fixed, a larger |user - expert| on one metric  *)
(* gives that metric a strictly smaller weighted contribution and does not *)
(* raise the overall score.                                                *)
C9_GapMonotone ==
    cmp_op = "changed" =>
      \A m \in DOMAIN user_metrics :
        comparison.metric_breakdown[m].user_value # previous.metric_breakdown[m].user_value =>
          LET before == [k \in DOMAIN user_metrics |->
                           previous.metric_breakdown[k].user_value]
          IN  StatedDistance(user_metrics, expert_pattern, m) > StatedDistance(before, expert_pattern, m)
                => /\ comparison.metric_breakdown[m].weighted_score
                        < previous.metric_breakdown[m].weighted_score
                   /\ comparison.overall_similarity <= previous.overall_similarity

C9_Witness ==
    /\ cmp_op = "changed"
    /\ \E m \in DOMAIN user_metrics :
         /\ m \notin DOMAIN expert_pattern
         /\ previous.metric_breakdown[m].user_value = 3
         /\ user_metrics[m] = 0
         /\ comparison.metric_breakdown[m].weighted_score
              < previous.metric_breakdown[m].weighted_score
    /\ comparison.overall_similarity < previous.overall_similarity

C20_UnknownSkillEqualWeights ==
    ( /\ cmp_op = "compare"
      /\ skill_type \notin KnownSkills
      /\ DOMAIN user_metrics # {} )
    => LET keys == DOMAIN user_metrics
           n    == Cardinality(keys)
       IN  /\ \A m \in keys : comparison.metric_breakdown[m].weight * n = 300
           /\ comparison.overall_similarity * n =
                300 * SumOver(keys, [m \in keys |->
                                      10 - StatedDistance(user_metrics, expert_pattern, m)])

C20_Witness ==
    /\ cmp_op = "compare"
    /\ skill_type = "Glassblowing"
    /\ user_metrics = ("speaking_pace" :> 10 @@ "eye_contact" :> 3 @@ "balance" :> 9)
    /\ expert_pattern = ("speaking_pace" :> 10 @@ "eye_contact" :> 9)
    /\ \A m \in DOMAIN user_metrics : comparison.metric_breakdown[m].weight = 100
    /\ comparison.overall_similarity = 2000

(* C17: generate_expert_feedback lists as strengths exactly the metrics    *)
(* with similarity > 0.8 and as improvement areas exactly the metrics with *)
(* gap (expert - user) > 0.2; no metric is in both lists, and a metric     *)
(* meeting neither condition, such as one where the user exceeds the       *)
(* expert by more than 0.2, is in neither.                                 *)
C17_StrengthsAndImprovementAreas ==
    cmp_op = "feedback" =>
      LET listed_strong  == {e.metric : e \in expert_feedback.strengths}
          listed_improve == {e.metric : e \in expert_feedback.improvement_areas}
          stated_gap(m)  == (IF m \in DOMAIN expert_pattern
                             THEN expert_pattern[m] ELSE 5) - user_metrics[m]
      IN  /\ listed_strong =
                {m \in DOMAIN user_metrics :
                    10 - StatedDistance(user_metrics, expert_pattern, m) > 8}
          /\ listed_improve = {m \in DOMAIN user_metrics : stated_gap(m) > 2}
          /\ listed_strong \cap listed_improve = {}

C17_Witness ==
    /\ cmp_op = "feedback"
    /\ user_metrics = ("eye_contact" :> 7 @@ "balance" :> 10)
    /\ expert_pattern = ("eye_contact" :> 10 @@ "balance" :> 7)
    /\ {e.metric : e \in expert_feedback.improvement_areas} = {"eye_contact"}
    /\ expert_feedback.strengths = {}

----------------------------------------------------------------------------
(* Properties of find_best_expert_matches on ties and empty corpora.       *)

(* The score section 4.1 gives the pattern at table position i.            *)
StatedPatternScore(i) ==
    SumOver(DOMAIN user_metrics,
            [m \in DOMAIN user_metrics |->
               StatedContribution(user_metrics, expert_patterns[i].pattern_data,
                                  skill_type, m)])

(* The table positions of the patterns the loop turns into matches.        *)
EligiblePatterns ==
    {i \in 1..Len(expert_patterns) :
        /\ expert_patterns[i].skill_type = skill_type
        /\ expert_patterns[i].expert_id \in experts}

(* C11: of two matched patterns with equal similarity scores, the one      *)
(* iterated earlier comes earlier in the result, and when the later one    *)
(* survives the truncation to top_n the earlier one survives too.          *)
C11_TiesKeepIterationOrder ==
    cmp_op = "matched" =>
      \A i, j \in EligiblePatterns :
        (i < j /\ StatedPatternScore(i) = StatedPatternScore(j)) =>
          \A q \in 1..Len(matches) :
            matches[q].pattern_id = j =>
              \E p \in 1..(q - 1) : matches[p].pattern_id = i

C11_Witness ==
    /\ cmp_op = "matched"
    /\ top_n = 2
    /\ EligiblePatterns = {1, 2, 3}
    /\ StatedPatternScore(1) = StatedPatternScore(2)
    /\ StatedPatternScore(2) = StatedPatternScore(3)
    /\ Len(matches) = 2
    /\ matches[1].pattern_id = 1
    /\ matches[2].pattern_id = 2

(* C12: when the table holds no pattern of the requested skill type,       *)
(* find_best_expert_matches returns the empty list, whatever the user      *)
(* vector and top_n.                                                       *)
C12_NoPatternsGivesEmptyList ==
    ( /\ cmp_op = "matched"
      /\ \A i \in 1..Len(expert_patterns) : expert_patterns[i].skill_type # skill_type )
    => matches = <<>>

C12_Witness ==
    /\ cmp_op = "matched"
    /\ skill_type = "Glassblowing"
    /\ Len(expert_patterns) = 3
    /\ \A i \in 1..3 : expert_patterns[i].expert_id \in experts
    /\ top_n = 3
    /\ user_metrics # <<>>
    /\ matches = <<>>

----------------------------------------------------------------------------
(* Multi-Strategy Recommender: ExpertRecommendationEngine.                 *)
(* Metric averages and raw strategy scores are in 1/600 (1.0 = AvgUnit),   *)
(* strategy weights in tenths and final scores in 1/6000.                  *)

MaxPool == 2
MaxComparisons == 2

AvgUnit == 600

(* The value of a dictionary key that has not been set.                    *)
Absent == -1

(* ExpertRecommendationEngine.__init__ *)
recommendation_strategies ==
    ( "similar_performance" :> 4 @@ "aspirational" :> 3 @@
      "progressive" :> 2 @@ "cross_domain" :> 1 )

(* self.recommendation_strategies.get(strategy, 0.1) *)
StrategyWeight(strategy) ==
    IF strategy \in DOMAIN recommendation_strategies
    THEN recommendation_strategies[strategy] ELSE 1

(* sum(m.values()) / len(m), reached with len(m) > 0 only *)
AverageScore(m) == (SumOver(DOMAIN m, m) * AvgUnit) \div (Unit * Cardinality(DOMAIN m))

Indices(s) == [i \in 1..Len(s) |-> i]

(* _get_available_experts: one dictionary per pattern of the skill type    *)
(* whose expert exists.  The dictionaries are the objects every strategy   *)
(* reads and writes; a list of experts is a list of positions in this heap.*)
get_available_experts(st) ==
    LET found == SelectSeq(PatternsOfSkill(st), LAMBDA r : ExpertExists(r.expert_id))
    IN  [i \in 1..Len(found) |->
           [ expert_id            |-> found[i].expert_id,
             pattern_data         |-> found[i].pattern_data,
             similarity_reason    |-> "",
             recommendation_score |-> Absent,
             strategy             |-> "",
             strategy_weight      |-> Absent,
             final_score          |-> Absent ]]

TopByScore_Unsorted(heap, accepted, k) == Prefix(accepted, k)

(* sorted(lst, key=lambda x: x["recommendation_score"], reverse=True)[:k]  *)
TopByScore(heap, accepted, k) ==
    Prefix(SortDescending(accepted,
               [j \in 1..Len(accepted) |-> heap[accepted[j]].recommendation_score]), k)

(* _find_similar_level_experts: within 0.2 of the user's average.          *)
find_similar_level_experts(heap, um) ==
    LET user_avg_score == AverageScore(um)
        delta(e)   == Abs(AverageScore(e.pattern_data) - user_avg_score)
        similar(e) == delta(e) <= 120
        marked == [i \in 1..Len(heap) |->
                     IF similar(heap[i])
                     THEN [heap[i] EXCEPT !.similarity_reason = "similar_level",
                                          !.recommendation_score = AvgUnit - delta(heap[i])]
                     ELSE heap[i]]
        accepted == SelectSeq(Indices(heap), LAMBDA i : similar(heap[i]))
    IN  [heap |-> marked, experts |-> TopByScore(marked, accepted, 3)]

(* _find_aspirational_experts: average of at least 0.85.                   *)
find_aspirational_experts(heap, um) ==
    LET master(e) == AverageScore(e.pattern_data) >= 510
        marked == [i \in 1..Len(heap) |->
                     IF master(heap[i])
                     THEN [heap[i] EXCEPT !.similarity_reason = "aspirational",
                                          !.recommendation_score = AverageScore(heap[i].pattern_data)]
                     ELSE heap[i]]
        accepted == SelectSeq(Indices(heap), LAMBDA i : master(heap[i]))
    IN  [heap |-> marked, experts |-> TopByScore(marked, accepted, 2)]

(* _find_progressive_experts: 0.1 to 0.3 above the user's average.         *)
find_progressive_experts(heap, um) ==
    LET user_avg_score == AverageScore(um)
        potential(e) == AverageScore(e.pattern_data) - user_avg_score
        above(e) == 60 <= potential(e) /\ potential(e) <= 180
        marked == [i \in 1..Len(heap) |->
                     IF above(heap[i])
                     THEN [heap[i] EXCEPT !.similarity_reason = "progressive",
                                          !.recommendation_score = potential(heap[i])]
                     ELSE heap[i]]
        accepted == SelectSeq(Indices(heap), LAMBDA i : above(heap[i]))
    IN  [heap |-> marked, experts |-> TopByScore(marked, accepted, 2)]

WeakMetrics_All(um) == DOMAIN um

(* weak_metrics = {k: v for k, v in user_metrics.items() if v < 0.6}       *)
WeakMetrics(um) == {k \in DOMAIN um : um[k] < 6}

(* _find_improvement_focused_experts: experts above 0.8 on metrics where   *)
(* the user is below 0.6.                                                  *)
find_improvement_focused_experts(heap, um) ==
    LET weak_metrics == WeakMetrics(um)
        relevant(e) == {k \in weak_metrics :
                          k \in DOMAIN e.pattern_data /\ e.pattern_data[k] > 8}
        strength(e) == SumOver(relevant(e),
                          [k \in relevant(e) |-> e.pattern_data[k] - um[k]])
        score(e)  == (strength(e) * AvgUnit) \div (Unit * Cardinality(relevant(e)))
        strong(e) == relevant(e) # {}
        marked == [i \in 1..Len(heap) |->
                     IF strong(heap[i])
                     THEN [heap[i] EXCEPT !.similarity_reason = "improvement_focused",
                                          !.recommendation_score = score(heap[i])]
                     ELSE heap[i]]
        accepted == SelectSeq(Indices(heap), LAMBDA i : strong(heap[i]))
    IN  IF weak_metrics = {}
        THEN [heap |-> heap, experts |-> <<>>]
        ELSE [heap |-> marked, experts |-> TopByScore(marked, accepted, 2)]

(* The keys of expert_popularity, in order of first occurrence.            *)
RECURSIVE FirstOccurrences(_)
FirstOccurrences(s) ==
    IF s = <<>> THEN <<>>
    ELSE LET rest == FirstOccurrences(SubSeq(s, 1, Len(s) - 1))
             x    == s[Len(s)]
         IN  IF \E i \in 1..Len(rest) : rest[i] = x THEN rest ELSE Append(rest, x)

CountOf(s, x) == Cardinality({i \in 1..Len(s) : s[i] = x})

(* _get_trending_experts: new dictionaries for the two most compared       *)
(* experts; their pattern_data is the Expert row's own column, which no    *)
(* operation modelled here reads.                                          *)
get_trending_experts ==
    LET ids   == FirstOccurrences(recent_comparisons)
        top   == Prefix(SortDescending(ids,
                     [j \in 1..Len(ids) |-> CountOf(recent_comparisons, ids[j])]), 2)
        found == SelectSeq(top, ExpertExists)
    IN  [j \in 1..Len(found) |->
           [ expert_id            |-> found[j],
             similarity_reason    |-> "trending",
             recommendation_score |-> (CountOf(recent_comparisons, found[j]) * AvgUnit) \div 10,
             strategy             |-> "",
             strategy_weight      |-> Absent,
             final_score          |-> Absent ]]

(* The first loop of _rank_and_combine_recommendations, over the           *)
(* (strategy, expert) pairs in dictionary order: it writes the strategy    *)
(* fields into the expert's dictionary.                                    *)
RECURSIVE ApplyWeights(_, _)
ApplyWeights(heap, pairs) ==
    IF pairs = <<>> THEN heap
    ELSE LET p      == Head(pairs)
             weight == StrategyWeight(p.strategy)
             e      == heap[p.ref]
             score  == IF e.recommendation_score = Absent
                       THEN AvgUnit \div 2 ELSE e.recommendation_score
         IN  ApplyWeights(
               [heap EXCEPT ![p.ref] = [e EXCEPT !.strategy = p.strategy,
                                                 !.strategy_weight = weight,
                                                 !.final_score = score * weight]],
               Tail(pairs))

(* The second loop: unique_recommendations, keyed by expert_id, in order   *)
(* of first insertion.                                                     *)
RECURSIVE Deduplicate(_, _, _)
Deduplicate(heap, all, unique) ==
    IF all = <<>> THEN unique
    ELSE LET rec  == Head(all)
             same == {j \in 1..Len(unique) :
                        heap[unique[j]].expert_id = heap[rec].expert_id}
         IN  Deduplicate(heap, Tail(all),
               IF same = {} THEN Append(unique, rec)
               ELSE LET j == CHOOSE x \in same : TRUE
                    IN  IF heap[rec].final_score > heap[unique[j]].final_score
                        THEN [unique EXCEPT ![j] = rec]
                        ELSE unique)

PairsOf(strategy, refs) ==
    [j \in 1..Len(refs) |-> [strategy |-> strategy, ref |-> refs[j]]]

(* _rank_and_combine_recommendations: the final list, as the dictionaries  *)
(* stand when it returns.                                                  *)
rank_and_combine_recommendations(heap, recommendations, n) ==
    LET pairs == PairsOf("similar_level", recommendations.similar_level)
                 \o PairsOf("aspirational", recommendations.aspirational)
                 \o PairsOf("progressive", recommendations.progressive)
                 \o PairsOf("improvement_focused", recommendations.improvement_focused)
                 \o PairsOf("trending", recommendations.trending)
        weighted == ApplyWeights(heap, pairs)
        all      == [j \in 1..Len(pairs) |-> pairs[j].ref]
        unique   == Deduplicate(weighted, all, <<>>)
        sorted   == SortDescending(unique,
                        [j \in 1..Len(unique) |-> weighted[unique[j]].final_score])
        final    == Prefix(sorted, n)
    IN  [j \in 1..Len(final) |-> weighted[final[j]]]

(* What a strategy returned, read when it returned.                        *)
Returned(strategy, heap, refs) ==
    [j \in 1..Len(refs) |->
       [ strategy             |-> strategy,
         expert_id            |-> heap[refs[j]].expert_id,
         similarity_reason    |-> heap[refs[j]].similarity_reason,
         recommendation_score |-> heap[refs[j]].recommendation_score ]]

(* get_personalized_recommendations up to the combined list.  The averages *)
(* of _find_similar_level_experts divide by the number of metrics; with no *)
(* user metric, or a pooled expert without metrics, the division raises.   *)
get_personalized_recommendations(um, st, n) ==
    LET available_experts == get_available_experts(st)
        s1 == find_similar_level_experts(available_experts, um)
        s2 == find_aspirational_experts(s1.heap, um)
        s3 == find_progressive_experts(s2.heap, um)
        s4 == find_improvement_focused_experts(s3.heap, um)
        trending == get_trending_experts
        heap == s4.heap \o trending
        recommendations ==
            [ similar_level       |-> s1.experts,
              aspirational        |-> s2.experts,
              progressive         |-> s3.experts,
              improvement_focused |-> s4.experts,
              trending            |-> [j \in 1..Len(trending) |-> Len(s4.heap) + j] ]
    IN  IF \/ DOMAIN um = {}
           \/ \E i \in 1..Len(available_experts) :
                 DOMAIN available_experts[i].pattern_data = {}
        THEN [ error |-> "ZeroDivisionError", recommendations |-> <<>>, nominated |-> <<>> ]
        ELSE [ error |-> "",
               recommendations |->
                   rank_and_combine_recommendations(heap, recommendations, n),
               nominated |->
                   Returned("similar_level", s1.heap, s1.experts)
                   \o Returned("aspirational", s2.heap, s2.experts)
                   \o Returned("progressive", s3.heap, s3.experts)
                   \o Returned("improvement_focused", s4.heap, s4.experts)
                   \o Returned("trending", heap, recommendations.trending) ]

RecUserVectors ==
    { <<>>, ("eye_contact" :> 5), ("eye_contact" :> 6), ("eye_contact" :> 7),
      ("eye_contact" :> 5 @@ "speaking_pace" :> 9) }
RecPatternData ==
    { <<>>, ("eye_contact" :> 7), ("eye_contact" :> 9),
      ("eye_contact" :> 8 @@ "speaking_pace" :> 9) }

RecPatternTables ==
    UNION { { t \in [1..n -> [id : 1..n, expert_id : ExpertIds,
                              skill_type : {"Public Speaking"},
                              pattern_data : RecPatternData]] :
                \A i \in 1..n : t[i].id = i } : n \in 0..MaxPool }

ComparisonLogs == UNION { [1..n -> ExpertIds] : n \in 0..MaxComparisons }

RecInit ==
    /\ user_metrics \in RecUserVectors
    /\ skill_type = "Public Speaking"
    /\ expert_patterns \in RecPatternTables
    /\ experts \in {ExpertIds, {1}}
    /\ recent_comparisons \in ComparisonLogs
    /\ num_recommendations \in {1, 2, 5}
    /\ recommendation = NoResult
    /\ top_n = 0 /\ matches = NoResult
    /\ cmp_op = "input"
    /\ CmpIdle /\ RtIdle /\ ClsIdle /\ ExtIdle /\ WsIdle

(* A request get_personalized_recommendations(user, skill_type,            *)
(* user_metrics, num_recommendations).                                     *)
GetRecommendations ==
    /\ cmp_op = "input"
    /\ recommendation' =
         get_personalized_recommendations(user_metrics, skill_type, num_recommendations)
    /\ cmp_op' = "recommended"
    /\ UNCHANGED <<user_metrics, skill_type, cmp_vars, match_vars,
                   recent_comparisons, num_recommendations, rt_vars, cls_vars, ext_vars, ws_vars>>

SpecRec == RecInit /\ [][GetRecommendations]_vars

(* The final score a nomination stands for: its raw score times the weight *)
(* the engine looks up for its strategy.                                   *)
NominationScore(nom) ==
    nom.recommendation_score *
      (IF nom.strategy \in DOMAIN recommendation_strategies
       THEN recommendation_strategies[nom.strategy] ELSE 1)

(* C3: an expert nominated by two strategies appears at most once in the   *)
(* final list, and the entry kept carries the highest final_score among    *)
(* the nominations of that expert.                                         *)
C3_DedupKeepsHighest ==
    (cmp_op = "recommended" /\ recommendation.error = "") =>
      LET final == recommendation.recommendations
          noms  == recommendation.nominated
      IN  \A a, b \in 1..Len(noms) :
            (a # b /\ noms[a].expert_id = noms[b].expert_id) =>
              /\ Cardinality({j \in 1..Len(final) :
                                final[j].expert_id = noms[a].expert_id}) <= 1
              /\ \A j \in 1..Len(final) :
                   final[j].expert_id = noms[a].expert_id =>
                     /\ \E c \in 1..Len(noms) :
                          /\ noms[c].expert_id = final[j].expert_id
                          /\ final[j].final_score = NominationScore(noms[c])
                     /\ \A c \in 1..Len(noms) :
                          noms[c].expert_id = final[j].expert_id =>
                            final[j].final_score >= NominationScore(noms[c])

(* The strategy weights as section 4.4 of the specification states them.   *)
StatedStrategyWeight ==
    ( "similar_level" :> 4 @@ "aspirational" :> 3 @@
      "progressive" :> 2 @@ "trending" :> 1 )

(* C4: the final_score of every candidate is its raw score times the       *)
(* weight of its strategy: 0.4 peer-level, 0.3 aspirational, 0.2           *)
(* progressive, 0.1 trending.                                              *)
C4_FinalScoreIsWeighted ==
    (cmp_op = "recommended" /\ recommendation.error = "") =>
      \A j \in 1..Len(recommendation.recommendations) :
        LET c == recommendation.recommendations[j]
        IN  c.strategy \in DOMAIN StatedStrategyWeight =>
              c.final_score = c.recommendation_score * StatedStrategyWeight[c.strategy]

(* C13: the combined list holds each expert id at most once, is in         *)
(* non-increasing order of final_score and has at most num_recommendations *)
(* entries.                                                                *)
C13_CombinedListUniqueSortedBounded ==
    (cmp_op = "recommended" /\ recommendation.error = "") =>
      LET final == recommendation.recommendations
      IN  /\ \A i, j \in 1..Len(final) :
                i < j => /\ final[i].expert_id # final[j].expert_id
                         /\ final[i].final_score >= final[j].final_score
          /\ Len(final) <= num_recommendations

C13_Witness ==
    /\ cmp_op = "recommended"
    /\ recommendation.error = ""
    /\ num_recommendations = 1
    /\ Len(recommendation.recommendations) = 1
    /\ \E a, b, c \in 1..Len(recommendation.nominated) :
         LET noms == recommendation.nominated
         IN  /\ a # b
             /\ noms[a].expert_id = noms[b].expert_id
             /\ noms[a].expert_id = recommendation.recommendations[1].expert_id
             /\ noms[c].expert_id # noms[a].expert_id

(* C14: get_personalized_recommendations returns a result and raises no    *)
(* division by zero, also for an empty user metric vector and for a pool   *)
(* holding an expert whose pattern is empty.                               *)
C14_NoDivisionByZero ==
    cmp_op = "recommended" => recommendation.error = ""

(* C16: the weakness-targeted strategy returns no candidate when every     *)
(* user metric is >= 0.6, and every candidate it returns has a metric on   *)
(* which the user is below 0.6 and the expert above 0.8.                   *)
C16_WeaknessTargeted ==
    (cmp_op = "recommended" /\ recommendation.error = "") =>
      LET noms == recommendation.nominated
          weak == {j \in 1..Len(noms) : noms[j].strategy = "improvement_focused"}
      IN  /\ (\A m \in DOMAIN user_metrics : user_metrics[m] >= 6) => weak = {}
          /\ \A j \in weak :
                \E i \in 1..Len(expert_patterns) :
                  /\ expert_patterns[i].expert_id = noms[j].expert_id
                  /\ expert_patterns[i].expert_id \in experts
                  /\ \E m \in DOMAIN user_metrics \cap DOMAIN expert_patterns[i].pattern_data :
                        /\ user_metrics[m] < 6
                        /\ expert_patterns[i].pattern_data[m] > 8

C16_Witness ==
    /\ cmp_op = "recommended"
    /\ recommendation.error = ""
    /\ user_metrics = ("eye_contact" :> 7)
    /\ Len(expert_patterns) = 2
    /\ expert_patterns[1].pattern_data = ("eye_contact" :> 9)
    /\ expert_patterns[1].expert_id \in experts
    /\ \A j \in 1..Len(recommendation.nominated) :
         recommendation.nominated[j].strategy # "improvement_focused"
    /\ recommendation.recommendations # <<>>

----------------------------------------------------------------------------
(* Real-time feedback sessions: realtime_feedback_api.                     *)
(*                                                                         *)
(* Every request runs as a coroutine with a database session of its own.   *)
(* end_feedback_session and start_feedback_session never suspend, so each  *)
(* is one step.  analyze_live_video_chunk suspends once, at                *)
(* `await file.read()`, after it has loaded the session row and tested     *)
(* is_active; what follows (the analysis, whose delay is a blocking        *)
(* time.sleep, the writes and the commit) runs without suspending.  The    *)
(* row it loaded is not loaded again: the commit updates feedback_data and *)
(* improvement_score only.  Wall-clock fields (durations, dates, the       *)
(* running average) are left out.                                          *)

MaxSessions == 2
MaxChunks == 2
MaxSuggestions == 1

(* overall_score of an analysis: the outcome of the simulated, random      *)
(* video analysis.                                                         *)
AnalysisScores == {40, 80}

(* What no request of this API touches.                                    *)
rt_frame == <<user_metrics, skill_type, cmp_op, cmp_vars, match_vars, rec_vars, cls_vars, ext_vars, ws_vars>>

(* start_feedback_session *)
StartSession ==
    /\ Len(sessions) < MaxSessions
    /\ sessions' = Append(sessions,
                     [is_active |-> TRUE, improvement_score |-> 0, feedback_chunk |-> 0])
    /\ UNCHANGED <<progress, suggestions, performance_metrics, requests, end_response>>
    /\ UNCHANGED rt_frame

RowsOf_None(table, sid) == {}

(* db.query(...).filter(session_id == sid).all() *)
RowsOf(table, sid) == {i \in 1..Len(table) : table[i].session_id = sid}

ProgressAfter_LastScore(score) ==
    IF progress = NoResult
    THEN [total_sessions |-> 1, best_session_score |-> score]
    ELSE [total_sessions |-> progress.total_sessions + 1, best_session_score |-> score]

(* The progress row after a session with the given score has ended.        *)
ProgressAfter(score) ==
    IF progress = NoResult
    THEN [total_sessions |-> 1, best_session_score |-> score]
    ELSE [total_sessions |-> progress.total_sessions + 1,
          best_session_score |-> IF score > progress.best_session_score
                                 THEN score ELSE progress.best_session_score]

(* end_feedback_session(session_id).  A request that names no session is  *)
(* answered 404 and changes nothing; it is not a step of the model.        *)
EndSession(sid) ==
    /\ sid <= Len(sessions)
    /\ UNCHANGED rt_frame
    /\ IF ~sessions[sid].is_active
       THEN /\ end_response' = [session_id |-> sid, status |-> 400]
            /\ UNCHANGED <<sessions, progress, suggestions, performance_metrics, requests>>
       ELSE /\ sessions' = [sessions EXCEPT ![sid].is_active = FALSE]
            /\ progress' = ProgressAfter(sessions[sid].improvement_score)
            /\ end_response' =
                 [ session_id        |-> sid,
                   status            |-> 200,
                   final_score       |-> sessions[sid].improvement_score,
                   total_suggestions |-> Cardinality(RowsOf(suggestions, sid)),
                   total_metrics     |-> Cardinality(RowsOf(performance_metrics, sid)) ]
            /\ UNCHANGED <<suggestions, performance_metrics, requests>>

(* analyze_live_video_chunk(session_id), up to `await file.read()`: the    *)
(* request is answered 400, or suspends with the session loaded.  (404 for *)
(* a session that does not exist changes nothing and is not a step.)       *)
AnalyzeBegin(sid) ==
    /\ sid <= Len(sessions)
    /\ Len(requests) < MaxChunks
    /\ requests' = Append(requests,
         [ session_id |-> sid,
           pc         |-> IF ~sessions[sid].is_active THEN "rejected" ELSE "reading" ])
    /\ UNCHANGED <<sessions, progress, suggestions, performance_metrics, end_response>>
    /\ UNCHANGED rt_frame

(* The ImprovementSuggestion rows one analysis adds; session_active        *)
(* records whether the session row was active when they were committed.    *)
SuggestionRows(sid, c, n) ==
    [j \in 1..n |-> [session_id |-> sid, chunk |-> c,
                     session_active |-> sessions[sid].is_active]]

(* analyze_live_video_chunk from the resumption to the commit.             *)
AnalyzeResume(c) ==
    /\ c <= Len(requests)
    /\ requests[c].pc = "reading"
    /\ \E score \in AnalysisScores, n \in 0..MaxSuggestions :
         LET sid == requests[c].session_id
         IN  /\ sessions' = [sessions EXCEPT ![sid].feedback_chunk = c,
                                             ![sid].improvement_score = score]
             /\ suggestions' = suggestions \o SuggestionRows(sid, c, n)
             /\ performance_metrics' =
                  Append(performance_metrics, [session_id |-> sid, chunk |-> c])
             /\ requests' = [requests EXCEPT ![c].pc = "done"]
    /\ UNCHANGED <<progress, end_response>>
    /\ UNCHANGED rt_frame

RtInit ==
    /\ sessions = <<>>
    /\ progress = NoResult
    /\ suggestions = <<>>
    /\ performance_metrics = <<>>
    /\ requests = <<>>
    /\ end_response = NoResult
    /\ user_metrics = <<>>
    /\ skill_type = "Public Speaking"
    /\ cmp_op = "realtime"
    /\ CmpIdle /\ MatchIdle /\ RecIdle /\ ClsIdle /\ ExtIdle /\ WsIdle

RtNext ==
    \/ StartSession
    \/ \E sid \in 1..MaxSessions : EndSession(sid)
    \/ \E sid \in 1..MaxSessions : AnalyzeBegin(sid)
    \/ \E c \in 1..MaxChunks : AnalyzeResume(c)

SpecRt == RtInit /\ [][RtNext]_vars

(* C5: no improvement suggestion is stored for a session once it has been  *)
(* ended, and an analyze request that finds the session ended is rejected  *)
(* and stores nothing.                                                     *)
C5_NoSuggestionAfterEnd ==
    /\ \A i \in 1..Len(suggestions) : suggestions[i].session_active
    /\ \A c \in 1..Len(requests) :
         requests[c].pc = "rejected" =>
           /\ \A i \in 1..Len(suggestions) : suggestions[i].chunk # c
           /\ \A i \in 1..Len(performance_metrics) : performance_metrics[i].chunk # c

(* C6: the chunks of a session are processed in arrival order: of two      *)
(* completed chunks the earlier arrival was stored first, and the          *)
(* session's score and feedback data are not those of the earlier one.     *)
C6_ChunksInArrivalOrder ==
    \A a, b \in 1..Len(requests) :
      ( /\ a < b
        /\ requests[a].session_id = requests[b].session_id
        /\ requests[a].pc = "done"
        /\ requests[b].pc = "done" )
      => /\ \A i, j \in 1..Len(performance_metrics) :
              (performance_metrics[i].chunk = a /\ performance_metrics[j].chunk = b)
                => i < j
         /\ sessions[requests[a].session_id].feedback_chunk >= b

(* C18: the step that ends a session leaves the stored suggestions and     *)
(* performance metrics as they are, and the response it gives reports as   *)
(* total_suggestions and total_metrics the number of rows of that session  *)
(* stored so far, that is by the analyze requests that completed before.   *)
C18_EndKeepsEmitted ==
    [][ \A sid \in 1..Len(sessions) :
          (sessions[sid].is_active /\ ~sessions'[sid].is_active) =>
            /\ suggestions' = suggestions
            /\ performance_metrics' = performance_metrics
            /\ end_response'.session_id = sid
            /\ end_response'.status = 200
            /\ end_response'.total_suggestions =
                 Cardinality({i \in 1..Len(suggestions) :
                                suggestions[i].session_id = sid})
            /\ end_response'.total_metrics =
                 Cardinality({i \in 1..Len(performance_metrics) :
                                performance_metrics[i].session_id = sid}) ]_vars

C18_Witness ==
    /\ Len(sessions) >= 1
    /\ ~sessions[1].is_active
    /\ end_response = [ session_id |-> 1, status |-> 200, final_score |-> 80,
                        total_suggestions |-> 1, total_metrics |-> 2 ]
    /\ Len(suggestions) = 1
    /\ suggestions[1].session_id = 1
    /\ suggestions[1].session_active
    /\ Len(performance_metrics) = 2

----------------------------------------------------------------------------
(* Real-Time Threshold Classifier: RealTimeAnalysisEngine.                 *)
(* Metric values, thresholds, deltas and scores are in hundredths          *)
(* (1.0 = 100), metric weights in tenths.  An analysis is the sequence of  *)
(* its (metric_name, value) entries in the order the nested loops of       *)
(* _calculate_performance_metrics visit them.                              *)

MaxMetrics == 2

DefaultOptimal == 9000
DefaultMinimum == 5000
NeutralScore == 5000

(* _load_skill_thresholds; the optimal_range entries are never read.       *)
skill_thresholds ==
    [s \in {"Public Speaking", "Dance/Fitness", "Cooking", "Music/Instrument", "Sports"} |->
       CASE s = "Public Speaking" ->
              ( "posture_stability" :> ("min" :> 7000 @@ "optimal" :> 9000) @@
                "speech_pace"       :> ("min" :> 12000 @@ "max" :> 18000) @@
                "eye_contact"       :> ("min" :> 6000 @@ "optimal" :> 8000) @@
                "gesture_frequency" :> ("min" :> 500 @@ "max" :> 1500) @@
                "pause_frequency"   :> ("min" :> 400 @@ "optimal" :> 800) @@
                "confidence_score"  :> ("min" :> 7000 @@ "optimal" :> 8500) )
         [] s = "Dance/Fitness" ->
              ( "rhythm_accuracy"   :> ("min" :> 8000 @@ "optimal" :> 9500) @@
                "movement_fluidity" :> ("min" :> 7500 @@ "optimal" :> 9000) @@
                "joint_stability"   :> ("min" :> 8000 @@ "optimal" :> 9500) @@
                "energy_level"      :> ("min" :> 7000 @@ "optimal" :> 8500) @@
                "synchronization"   :> ("min" :> 7500 @@ "optimal" :> 9000) )
         [] s = "Cooking" ->
              ( "knife_technique"   :> ("min" :> 7000 @@ "optimal" :> 9000) @@
                "timing_precision"  :> ("min" :> 8000 @@ "optimal" :> 9500) @@
                "efficiency_score"  :> ("min" :> 7500 @@ "optimal" :> 9000) @@
                "safety_compliance" :> ("min" :> 9000 @@ "optimal" :> 10000) @@
                "organization"      :> ("min" :> 7000 @@ "optimal" :> 8500) )
         [] s = "Music/Instrument" ->
              ( "rhythm_consistency" :> ("min" :> 8500 @@ "optimal" :> 9800) @@
                "timing_accuracy"    :> ("min" :> 8000 @@ "optimal" :> 9500) @@
                "technique_score"    :> ("min" :> 7500 @@ "optimal" :> 9000) @@
                "expression_level"   :> ("min" :> 6000 @@ "optimal" :> 8000) )
         [] s = "Sports" ->
              ( "form_accuracy"     :> ("min" :> 8000 @@ "optimal" :> 9500) @@
                "power_consistency" :> ("min" :> 7500 @@ "optimal" :> 9000) @@
                "balance_stability" :> ("min" :> 8000 @@ "optimal" :> 9500) @@
                "reaction_time"     :> ("min" :> 7000 @@ "optimal" :> 8500) )]

(* _load_suggestion_templates: the first template of each metric, the only *)
(* one _generate_improvement_suggestions uses.                             *)
suggestion_templates ==
    ( "posture_stability" :> [priority |-> "high", category |-> "movement"] @@
      "speech_pace"       :> [priority |-> "high", category |-> "speech"] @@
      "eye_contact"       :> [priority |-> "high", category |-> "movement"] @@
      "rhythm_accuracy"   :> [priority |-> "high", category |-> "timing"] @@
      "technique_score"   :> [priority |-> "medium", category |-> "technique"] )

(* The weights table of _get_metric_weight, in tenths.                     *)
metric_weights ==
    [s \in {"Public Speaking", "Dance/Fitness", "Music/Instrument"} |->
       CASE s = "Public Speaking" ->
              ( "confidence_score" :> 15 @@ "eye_contact_percentage" :> 13 @@
                "posture_stability" :> 12 @@ "pace_words_per_minute" :> 11 @@
                "volume_consistency" :> 10 @@ "gesture_frequency" :> 8 @@
                "pause_frequency" :> 7 )
         [] s = "Dance/Fitness" ->
              ( "rhythm_accuracy" :> 15 @@ "movement_fluidity" :> 13 @@
                "joint_stability" :> 12 @@ "energy_level" :> 10 @@
                "beat_synchronization" :> 11 )
         [] s = "Music/Instrument" ->
              ( "rhythm_consistency" :> 15 @@ "timing_accuracy" :> 14 @@
                "finger_position" :> 12 @@ "hand_coordination" :> 11 @@
                "posture_score" :> 10 )]

(* weights.get(skill_type, {}).get(metric_name, 1.0) *)
get_metric_weight(metric_name, st) ==
    IF st \in DOMAIN metric_weights /\ metric_name \in DOMAIN metric_weights[st]
    THEN metric_weights[st][metric_name] ELSE 10

(* self.skill_thresholds.get(skill_type, {}).get(metric_name, {}) *)
ThresholdOf(st, metric_name) ==
    IF st \in DOMAIN skill_thresholds /\ metric_name \in DOMAIN skill_thresholds[st]
    THEN skill_thresholds[st][metric_name] ELSE <<>>

get_performance_level_LooseGood(value, threshold) ==
    LET optimal == IF "optimal" \in DOMAIN threshold
                   THEN threshold["optimal"] ELSE DefaultOptimal
        minimum == IF "min" \in DOMAIN threshold
                   THEN threshold["min"] ELSE DefaultMinimum
    IN  IF value >= optimal THEN "excellent"
        ELSE IF 10 * value >= 8 * optimal THEN "good"
        ELSE IF value >= minimum THEN "fair"
        ELSE "needs_improvement"

(* _get_performance_level *)
get_performance_level(value, threshold) ==
    LET optimal == IF "optimal" \in DOMAIN threshold
                   THEN threshold["optimal"] ELSE DefaultOptimal
        minimum == IF "min" \in DOMAIN threshold
                   THEN threshold["min"] ELSE DefaultMinimum
    IN  IF value >= optimal THEN "excellent"
        ELSE IF 10 * value >= 9 * optimal THEN "good"
        ELSE IF value >= minimum THEN "fair"
        ELSE "needs_improvement"

(* The dictionary _calculate_performance_metrics appends for one entry;    *)
(* category and unit are labels nothing computes with.                     *)
PerformanceMetric(entry, st) ==
    LET value         == entry.value
        threshold     == ThresholdOf(st, entry.metric_name)
        optimal_value == IF "optimal" \in DOMAIN threshold
                         THEN threshold["optimal"] ELSE (value * 12) \div 10
    IN  [ metric_name       |-> entry.metric_name,
          value             |-> value,
          target_value      |-> optimal_value,
          improvement_delta |-> IF value < optimal_value
                                THEN optimal_value - value ELSE 0,
          performance_level |-> get_performance_level(value, threshold) ]

calculate_performance_metrics(results, st) ==
    [i \in 1..Len(results) |-> PerformanceMetric(results[i], st)]

determine_priority_DeltaOnly(metric) ==
    IF metric.improvement_delta > 1500 THEN "high"
    ELSE IF metric.improvement_delta > 800 THEN "medium"
    ELSE "low"

(* _determine_priority *)
determine_priority(metric) ==
    IF metric.performance_level = "needs_improvement" \/ metric.improvement_delta > 1500
    THEN "high"
    ELSE IF metric.improvement_delta > 800 THEN "medium" ELSE "low"

(* _calculate_confidence_score *)
calculate_confidence_score(metric) ==
    IF metric.improvement_delta > 2000 THEN 95
    ELSE IF metric.improvement_delta > 1000 THEN 85
    ELSE IF metric.improvement_delta > 500 THEN 75
    ELSE 65

TopImprovementAreas_All(prioritized) == prioritized

(* prioritized_metrics[:5] *)
TopImprovementAreas(prioritized) == Prefix(prioritized, 5)

(* _generate_improvement_suggestions; the content text is left out.        *)
generate_improvement_suggestions(metrics, st) ==
    LET prioritized == SortDescending(metrics,
                           [i \in 1..Len(metrics) |-> metrics[i].improvement_delta])
        chosen == SelectSeq(TopImprovementAreas(prioritized),
                      LAMBDA m : /\ m.metric_name \in DOMAIN suggestion_templates
                                 /\ m.improvement_delta > 0)
    IN  [i \in 1..Len(chosen) |->
           [ suggestion_type  |-> chosen[i].metric_name,
             priority         |-> determine_priority(chosen[i]),
             category         |-> suggestion_templates[chosen[i].metric_name].category,
             confidence_score |-> calculate_confidence_score(chosen[i]),
             metric_impact    |-> chosen[i].improvement_delta ]]

(* round(x, 0) of the rational num/den, den > 0, halves to the even side.  *)
RoundHalfEven(num, den) ==
    LET q == num \div den
        r == num % den
    IN  IF 2 * r < den THEN q
        ELSE IF 2 * r > den THEN q + 1
        ELSE IF q % 2 = 0 THEN q ELSE q + 1

ClampedScore_Unclamped(num, den) == num

(* min(max(overall_score, 0), 100) of the rational num/den, as the         *)
(* numerator over the same denominator.                                    *)
ClampedScore(num, den) ==
    IF num < 0 THEN 0
    ELSE IF num > 10000 * den THEN 10000 * den
    ELSE num

(* _calculate_overall_score.  Scores are summed doubled, so that the       *)
(* halving of a value above 100 stays exact.                               *)
calculate_overall_score(metrics, st) ==
    LET n == Len(metrics)
        weight == [i \in 1..n |-> get_metric_weight(metrics[i].metric_name, st)]
        doubled_score ==
            [i \in 1..n |->
               IF metrics[i].value > 10000
               THEN Min(metrics[i].value, 20000)
               ELSE 2 * metrics[i].value]
        total_weighted_score ==
            SumOver(1..n, [i \in 1..n |-> doubled_score[i] * weight[i]])
        total_weight == SumOver(1..n, weight)
    IN  IF n = 0 THEN NeutralScore
        ELSE IF total_weight > 0
             THEN 10 * RoundHalfEven(ClampedScore(total_weighted_score, 2 * total_weight),
                                     20 * total_weight)
             ELSE NeutralScore

(* analyze_realtime_video, from the analysis results on.                   *)
analyze_realtime_video(results, st) ==
    LET metrics == calculate_performance_metrics(results, st)
    IN  [ overall_score           |-> calculate_overall_score(metrics, st),
          improvement_suggestions |-> generate_improvement_suggestions(metrics, st),
          performance_metrics     |-> metrics ]

ClsSkillTypes == {"Public Speaking", "Dance/Fitness", "Glassblowing"}
ClsMetricNames == {"posture_stability", "confidence_score", "gesture_frequency",
                   "rhythm_accuracy"}
ClsValues == {-5000, 0, 2000, 7000, 7500, 8000, 8100, 8200, 8500, 9000, 9500,
              15000, 30000}

AnalysisResults ==
    UNION { [1..n -> [metric_name : ClsMetricNames, value : ClsValues]] :
              n \in 0..MaxMetrics }

ClsInit ==
    /\ analysis_results \in AnalysisResults
    /\ skill_type \in ClsSkillTypes
    /\ feedback = NoResult
    /\ user_metrics = <<>>
    /\ cmp_op = "input"
    /\ CmpIdle /\ MatchIdle /\ RecIdle /\ RtIdle /\ ExtIdle /\ WsIdle

(* One pass of the classifier over the analysis of a chunk.                *)
Classify ==
    /\ cmp_op = "input"
    /\ feedback' = analyze_realtime_video(analysis_results, skill_type)
    /\ cmp_op' = "classified"
    /\ UNCHANGED <<user_metrics, skill_type, analysis_results,
                   cmp_vars, match_vars, rec_vars, rt_vars, ext_vars, ws_vars>>

SpecCls == ClsInit /\ [][Classify]_vars

(* Analyses with more metrics than the five a pass may comment on: the     *)
(* first n of these names, each with one of three values.                  *)
MaxRanked == 6

RankedNames ==
    << "confidence_score", "posture_stability", "speech_pace", "eye_contact",
       "rhythm_accuracy", "technique_score", "gesture_frequency", "pause_frequency" >>
RankedValues == {0, 5000, 8000}
RankedSkillTypes == {"Public Speaking", "Music/Instrument", "Glassblowing"}

RankedAnalysisResults ==
    UNION { { [i \in 1..n |-> [metric_name |-> RankedNames[i], value |-> v[i]]] :
                v \in [1..n -> RankedValues] } :
            n \in 0..MaxRanked }

ClsRankedInit ==
    /\ analysis_results \in RankedAnalysisResults
    /\ skill_type \in RankedSkillTypes
    /\ feedback = NoResult
    /\ user_metrics = <<>>
    /\ cmp_op = "input"
    /\ CmpIdle /\ MatchIdle /\ RecIdle /\ RtIdle /\ ExtIdle /\ WsIdle

SpecClsRanked == ClsRankedInit /\ [][Classify]_vars

(* C15: the overall score of the classifier lies in [0,100], also for      *)
(* metric values below 0 or above 100 and for every skill type.            *)
C15_OverallScoreInRange ==
    cmp_op = "classified" =>
      /\ feedback.overall_score >= 0
      /\ feedback.overall_score <= 10000

C15_Witness ==
    /\ cmp_op = "classified"
    /\ Len(analysis_results) = 2
    /\ analysis_results[1].value = -5000
    /\ analysis_results[2].value = 30000
    /\ analysis_results[1].metric_name = "confidence_score"
    /\ analysis_results[2].metric_name = "posture_stability"
    /\ skill_type = "Public Speaking"
    /\ feedback.overall_score = 1670

(* The metrics of the last pass whose name has a band with both a          *)
(* minimum and an optimal value for the skill type.                        *)
BandedMetrics ==
    {i \in 1..Len(analysis_results) :
        /\ skill_type \in DOMAIN skill_thresholds
        /\ analysis_results[i].metric_name \in DOMAIN skill_thresholds[skill_type]
        /\ {"min", "optimal"} \subseteq
              DOMAIN skill_thresholds[skill_type][analysis_results[i].metric_name]}

(* C22: for a metric with a configured {min, optimal} band the level is    *)
(* excellent iff value >= optimal, good iff 0.9 * optimal <= value <       *)
(* optimal, fair iff min <= value < 0.9 * optimal, needs_improvement       *)
(* otherwise; the improvement delta is max(0, optimal - value).            *)
C22_LevelsFollowBand ==
    cmp_op = "classified" =>
      \A i \in BandedMetrics :
        LET band  == skill_thresholds[skill_type][analysis_results[i].metric_name]
            v     == analysis_results[i].value
            level == feedback.performance_metrics[i].performance_level
            delta == feedback.performance_metrics[i].improvement_delta
        IN  /\ (level = "excellent") <=> (v >= band["optimal"])
            /\ (level = "good") <=>
                  (10 * v >= 9 * band["optimal"] /\ v < band["optimal"])
            /\ (level = "fair") <=>
                  (v >= band["min"] /\ 10 * v < 9 * band["optimal"])
            /\ (level = "needs_improvement") <=>
                  (v < band["min"] /\ 10 * v < 9 * band["optimal"])
            /\ delta = (IF band["optimal"] - v > 0 THEN band["optimal"] - v ELSE 0)
            /\ delta >= 0

C22_Witness ==
    /\ cmp_op = "classified"
    /\ skill_type = "Public Speaking"
    /\ Len(analysis_results) = 2
    /\ analysis_results[1] = [metric_name |-> "posture_stability", value |-> 8100]
    /\ analysis_results[2] = [metric_name |-> "confidence_score", value |-> 7000]
    /\ feedback.performance_metrics[1].performance_level = "good"
    /\ feedback.performance_metrics[1].improvement_delta = 900
    /\ feedback.performance_metrics[2].performance_level = "fair"

(* The metrics of the last pass whose name has no optimal value            *)
(* configured for the skill type.                                          *)
UnconfiguredMetrics ==
    {i \in 1..Len(analysis_results) :
        \/ skill_type \notin DOMAIN skill_thresholds
        \/ analysis_results[i].metric_name \notin DOMAIN skill_thresholds[skill_type]
        \/ "optimal" \notin
              DOMAIN skill_thresholds[skill_type][analysis_results[i].metric_name]}

(* C23: for a metric with no configured optimal, the target value is       *)
(* value * 1.2, the improvement delta is max(0, target - value), and the   *)
(* performance level is the one the same target value gives: excellent iff *)
(* value >= target, good iff 0.9 * target <= value < target.               *)
C23_UnconfiguredOptimalConsistent ==
    cmp_op = "classified" =>
      \A i \in UnconfiguredMetrics :
        LET v      == analysis_results[i].value
            target == (12 * v) \div 10
            m      == feedback.performance_metrics[i]
        IN  /\ m.target_value = target
            /\ m.improvement_delta = (IF target - v > 0 THEN target - v ELSE 0)
            /\ (m.performance_level = "excellent") <=> (v >= target)
            /\ (m.performance_level = "good") <=> (10 * v >= 9 * target /\ v < target)

(* The metric names section 4.5 has a suggestion template for.             *)
TemplatedMetrics ==
    {"posture_stability", "speech_pace", "eye_contact", "rhythm_accuracy",
     "technique_score"}

(* C24: a pass emits at most 5 suggestions, in non-increasing order of     *)
(* improvement delta; each is for a metric that fewer than 5 metrics       *)
(* precede in the ranking by delta, that has delta > 0 and a template; a   *)
(* metric ranked below the fifth gets none, even when metrics among the    *)
(* first five were skipped.  (Metric names are distinct in these passes.)  *)
C24_TopFiveSuggestions ==
    cmp_op = "classified" =>
      LET sug      == feedback.improvement_suggestions
          ms       == feedback.performance_metrics
          delta(i) == ms[i].improvement_delta
          rank(i)  == 1 + Cardinality({j \in 1..Len(ms) :
                            \/ delta(j) > delta(i)
                            \/ (delta(j) = delta(i) /\ j < i)})
      IN  /\ Len(sug) <= 5
          /\ \A a, b \in 1..Len(sug) :
                a < b => sug[a].metric_impact >= sug[b].metric_impact
          /\ \A a \in 1..Len(sug) :
                \E i \in 1..Len(ms) :
                  /\ ms[i].metric_name = sug[a].suggestion_type
                  /\ sug[a].metric_impact = delta(i)
                  /\ rank(i) <= 5
                  /\ delta(i) > 0
                  /\ ms[i].metric_name \in TemplatedMetrics
          /\ \A i \in 1..Len(ms) :
                rank(i) > 5 =>
                  \A a \in 1..Len(sug) : sug[a].suggestion_type # ms[i].metric_name

C24_Witness ==
    /\ cmp_op = "classified"
    /\ skill_type = "Glassblowing"
    /\ Len(analysis_results) = 6
    /\ analysis_results[1].value = 8000
    /\ \A i \in 2..6 : analysis_results[i].value = 5000
    /\ Len(feedback.improvement_suggestions) = 4
    /\ feedback.performance_metrics[6].improvement_delta = 1000
    /\ \A a \in 1..4 :
         feedback.improvement_suggestions[a].suggestion_type # "technique_score"

(* Section 4.5: priority and confidence of a suggestion, as stated.        *)
StatedPriority(level, delta) ==
    IF level = "needs_improvement" \/ delta > 1500 THEN "high"
    ELSE IF delta > 800 THEN "medium"
    ELSE "low"

StatedConfidence(delta) ==
    IF delta > 2000 THEN 95
    ELSE IF delta > 1000 THEN 85
    ELSE IF delta > 500 THEN 75
    ELSE 65

(* C25: every suggestion has the priority stated for its metric's level    *)
(* and delta and the confidence stated for its delta, and of two           *)
(* suggestions the one with the larger delta has no smaller confidence.    *)
C25_PriorityAndConfidence ==
    cmp_op = "classified" =>
      LET sug == feedback.improvement_suggestions
          ms  == feedback.performance_metrics
      IN  /\ \A a \in 1..Len(sug) :
                /\ \E i \in 1..Len(ms) :
                      /\ ms[i].metric_name = sug[a].suggestion_type
                      /\ ms[i].improvement_delta = sug[a].metric_impact
                /\ \A i \in 1..Len(ms) :
                      (/\ ms[i].metric_name = sug[a].suggestion_type
                       /\ ms[i].improvement_delta = sug[a].metric_impact)
                      => /\ sug[a].priority =
                              StatedPriority(ms[i].performance_level,
                                             ms[i].improvement_delta)
                         /\ sug[a].confidence_score =
                              StatedConfidence(ms[i].improvement_delta)
          /\ \A a, b \in 1..Len(sug) :
                sug[a].metric_impact >= sug[b].metric_impact
                => sug[a].confidence_score >= sug[b].confidence_score

(* A metric far below its band with a small delta: high priority by level  *)
(* alone, lowest confidence; next to one with medium priority.             *)
C25_Witness ==
    /\ cmp_op = "classified"
    /\ Len(feedback.improvement_suggestions) = 2
    /\ feedback.performance_metrics[1].performance_level = "needs_improvement"
    /\ feedback.performance_metrics[1].improvement_delta = 400
    /\ feedback.improvement_suggestions[1].priority = "medium"
    /\ feedback.improvement_suggestions[1].confidence_score = 75
    /\ feedback.improvement_suggestions[2].priority = "high"
    /\ feedback.improvement_suggestions[2].confidence_score = 65

----------------------------------------------------------------------------
(* Metric Extractor: PatternComparator.extract_user_metrics.               *)
(* analysis_data is the raw record flattened to its field paths; a path    *)
(* outside its domain is a field the record lacks.  Scores are in tenths,  *)
(* words_per_minute in words per minute.                                   *)

Max(a, b) == IF a >= b THEN a ELSE b

(* d.get(key, default), along a path of nested dictionaries *)
Field(data, path, default) == IF path \in DOMAIN data THEN data[path] ELSE default

(* _calculate_voice_modulation *)
calculate_voice_modulation(data) ==
    (Field(data, "speech_analysis.tone_variation", 5)
       + Field(data, "speech_analysis.pitch_range", 5)) \div 2

(* _calculate_pause_timing *)
calculate_pause_timing(data) ==
    (Field(data, "speech_analysis.pauses.frequency", 5)
       + Field(data, "speech_analysis.pauses.appropriateness", 5)) \div 2

(* _normalize_speaking_pace *)
normalize_speaking_pace(wpm) ==
    IF 120 <= wpm /\ wpm <= 180 THEN 10
    ELSE IF wpm < 120 THEN Max(0, (wpm * 10) \div 120)
    ELSE Max(0, 10 - (wpm - 180) \div 10)

(* _calculate_footwork_precision *)
calculate_footwork_precision(data) ==
    (Field(data, "video_analysis.joint_tracking.ankle_stability", 5)
       + Field(data, "video_analysis.joint_tracking.knee_alignment", 5)) \div 2

(* max(0.0, min(1.0, float(value))) *)
Clamp01(value) == Max(0, Min(10, value))

(* extract_user_metrics *)
extract_user_metrics(data, st) ==
    LET video(key) == Field(data, "video_analysis." \o key, 5)
        raw ==
          CASE st = "Public Speaking" ->
                 ( "voice_modulation" :> calculate_voice_modulation(data) @@
                   "pause_timing" :> calculate_pause_timing(data) @@
                   "gesture_coordination" :> video("gesture_score") @@
                   "emotional_resonance" :>
                       Field(data, "speech_analysis.sentiment.compound", 5) @@
                   "eye_contact" :> video("eye_contact_score") @@
                   "speaking_pace" :>
                       normalize_speaking_pace(
                           Field(data, "speech_analysis.pace.words_per_minute", 150)) )
            [] st = "Sports/Athletics" ->
                 ( "footwork_precision" :> calculate_footwork_precision(data) @@
                   "technique_execution" :> video("technique_score") @@
                   "balance" :> video("balance_score") @@
                   "timing" :> video("timing_score") @@
                   "coordination" :> video("coordination_score") )
            [] st = "Music/Instrument" ->
                 ( "rhythm_accuracy" :> video("rhythm_score") @@
                   "timing_precision" :> video("timing_score") @@
                   "finger_technique" :> video("technique_score") @@
                   "musical_expression" :> video("expression_score") @@
                   "tempo_control" :> video("tempo_consistency") @@
                   "dynamics" :> video("dynamics_score") )
            [] st = "Cooking" ->
                 ( "knife_skills" :> video("knife_technique_score") @@
                   "timing_precision" :> video("timing_score") @@
                   "technique_execution" :> video("technique_score") @@
                   "efficiency" :> video("efficiency_score") @@
                   "safety_awareness" :> video("safety_score") @@
                   "multitasking" :> video("multitasking_score") )
            [] st = "Dance/Fitness" ->
                 ( "movement_precision" :> video("movement_score") @@
                   "balance" :> video("balance_score") @@
                   "rhythm_accuracy" :> video("rhythm_score") @@
                   "flexibility" :> video("flexibility_score") @@
                   "coordination" :> video("coordination_score") )
            [] OTHER -> <<>>
    IN  [k \in DOMAIN raw |-> Clamp01(raw[k])]

(* Raw records: any subset of these score fields, each below, inside or    *)
(* above [0,1] (odd tenths, so that the two-field means are exact), with   *)
(* or without a speaking pace.                                             *)
ScoreFields ==
    {"speech_analysis.tone_variation", "speech_analysis.pitch_range",
     "video_analysis.eye_contact_score", "video_analysis.balance_score",
     "video_analysis.timing_score", "video_analysis.joint_tracking.ankle_stability"}
ScoreValues == {-5, 3, 15}
WpmValues == {-60, 60, 230, 300}

ScoreRecords == UNION {[K -> ScoreValues] : K \in SUBSET ScoreFields}
PaceRecords ==
    {<<>>} \cup {("speech_analysis.pace.words_per_minute" :> w) : w \in WpmValues}

ExtractSkillTypes == DOMAIN skill_weights \cup {"Glassblowing"}

ExtractInit ==
    /\ \E scores \in ScoreRecords, pace \in PaceRecords : analysis_data = scores @@ pace
    /\ skill_type \in ExtractSkillTypes
    /\ user_metrics = <<>>
    /\ cmp_op = "input"
    /\ CmpIdle /\ MatchIdle /\ RecIdle /\ RtIdle /\ ClsIdle /\ WsIdle

(* A call extract_user_metrics(analysis_data, skill_type).                 *)
ExtractUserMetrics ==
    /\ cmp_op = "input"
    /\ user_metrics' = extract_user_metrics(analysis_data, skill_type)
    /\ cmp_op' = "extracted"
    /\ UNCHANGED <<skill_type, analysis_data, cmp_vars, match_vars, rec_vars,
                   rt_vars, cls_vars, ws_vars>>

SpecExtract == ExtractInit /\ [][ExtractUserMetrics]_vars

(* C21: every value extract_user_metrics returns lies in [0,1]; for a      *)
(* known skill type the keys returned are the keys of the skill's weight   *)
(* table; and a metric whose fields the record lacks gets the neutral      *)
(* default 0.5.                                                            *)
C21_ExtractedMetricsClampedAndDefaulted ==
    cmp_op = "extracted" =>
      /\ \A m \in DOMAIN user_metrics : user_metrics[m] >= 0 /\ user_metrics[m] <= 10
      /\ skill_type \in KnownSkills =>
           DOMAIN user_metrics = DOMAIN skill_weights[skill_type]
      /\ analysis_data = <<>> => \A m \in DOMAIN user_metrics : user_metrics[m] = 5

----------------------------------------------------------------------------
(* Learning path: ExpertRecommendationEngine._generate_learning_path.      *)
(* Metric values in tenths, efforts in whole weeks.                        *)

MaxPathMetrics == 4

(* metric.replace("_", " ").title() on the metric names used below *)
TitleOf ==
    ( "eye_contact" :> "Eye Contact" @@ "speaking_pace" :> "Speaking Pace" @@
      "gesture_frequency" :> "Gesture Frequency" @@
      "voice_modulation" :> "Voice Modulation" @@ "pause_timing" :> "Pause Timing" )

EstimatedWeeks_NoMinimum(gap) == (gap * 8) \div Unit

(* max(2, int(gap * 8)), for a gap > 0 *)
EstimatedWeeks(gap) == Max(2, (gap * 8) \div Unit)

RECURSIVE SumWeeks(_)
SumWeeks(steps) ==
    IF steps = <<>> THEN 0
    ELSE Head(steps).estimated_weeks + SumWeeks(Tail(steps))

(* _generate_learning_path.  expert_metrics is the decoded pattern_data,   *)
(* a sequence of (metric, value) items in the order of the JSON object;    *)
(* the constant texts of the result are left out.                          *)
generate_learning_path(rec, um) ==
    LET expert_metrics == rec.pattern_data
        wide == SelectSeq(expert_metrics,
                    LAMBDA it : /\ it.metric \in DOMAIN um
                                /\ it.value - um[it.metric] > 1)
        gaps == [i \in 1..Len(wide) |->
                   [ metric  |-> wide[i].metric,
                     gap     |-> wide[i].value - um[wide[i].metric],
                     current |-> um[wide[i].metric],
                     target  |-> wide[i].value ]]
        sorted == SortDescending(gaps, [i \in 1..Len(gaps) |-> gaps[i].gap])
        top    == Prefix(sorted, 3)
        learning_steps ==
            [i \in 1..Len(top) |->
               [ step               |-> i,
                 focus_area         |-> TitleOf[top[i].metric],
                 current_level      |-> top[i].current,
                 target_level       |-> top[i].target,
                 improvement_needed |-> top[i].gap,
                 priority           |-> IF top[i].gap > 3 THEN "high" ELSE "medium",
                 estimated_weeks    |-> EstimatedWeeks(top[i].gap) ]]
    IN  [ total_estimated_weeks |-> SumWeeks(learning_steps),
          learning_steps        |-> learning_steps ]

PathMetricNames ==
    << "eye_contact", "speaking_pace", "gesture_frequency", "voice_modulation",
       "pause_timing" >>
PathExpertValues == {5, 9, 10}
PathUserValues == {2, 4, 8}

PathPatternData ==
    UNION { { [i \in 1..n |-> [metric |-> PathMetricNames[i], value |-> v[i]]] :
                v \in [1..n -> PathExpertValues] } :
            n \in 0..MaxPathMetrics }

PathUserVectors ==
    UNION { [K -> PathUserValues] :
              K \in SUBSET {PathMetricNames[i] : i \in 1..MaxPathMetrics} }

PathInit ==
    /\ user_metrics \in PathUserVectors
    /\ \E pd \in PathPatternData :
         recommendation = [pattern_data |-> pd, learning_path |-> NoResult]
    /\ skill_type = "Public Speaking"
    /\ recent_comparisons = <<>> /\ num_recommendations = 0
    /\ cmp_op = "input"
    /\ CmpIdle /\ MatchIdle /\ RtIdle /\ ClsIdle /\ ExtIdle /\ WsIdle

(* rec["learning_path"] = self._generate_learning_path(rec, user_metrics)  *)
GenerateLearningPath ==
    /\ cmp_op = "input"
    /\ recommendation' =
         [recommendation EXCEPT
            !.learning_path = generate_learning_path(recommendation, user_metrics)]
    /\ cmp_op' = "path"
    /\ UNCHANGED <<user_metrics, skill_type, cmp_vars, match_vars,
                   recent_comparisons, num_recommendations, rt_vars, cls_vars,
                   ext_vars, ws_vars>>

SpecPath == PathInit /\ [][GenerateLearningPath]_vars

(* Section 3.4 on the learning path, with the effort of a phase given by   *)
(* effort(gap, weeks): at most 3 phases, one per metric of both vectors    *)
(* with gap > 0.1, the widest gaps first; priority high iff gap > 0.3; the *)
(* total is the sum of the efforts.                                        *)
StatedLearningPath(effort(_, _)) ==
    LET pd    == recommendation.pattern_data
        steps == recommendation.learning_path.learning_steps
        Q     == {i \in 1..Len(pd) :
                    /\ pd[i].metric \in DOMAIN user_metrics
                    /\ pd[i].value - user_metrics[pd[i].metric] > 1}
        gap(i) == pd[i].value - user_metrics[pd[i].metric]
        at(k)  == CHOOSE i \in 1..Len(pd) : TitleOf[pd[i].metric] = steps[k].focus_area
    IN  /\ Len(steps) = Min(3, Cardinality(Q))
        /\ \A k \in 1..Len(steps) :
             /\ \E i \in Q : TitleOf[pd[i].metric] = steps[k].focus_area
             /\ steps[k].improvement_needed = gap(at(k))
             /\ steps[k].priority = (IF gap(at(k)) > 3 THEN "high" ELSE "medium")
             /\ effort(gap(at(k)), steps[k].estimated_weeks)
        /\ \A k, l \in 1..Len(steps) :
             k < l => /\ steps[k].improvement_needed >= steps[l].improvement_needed
                      /\ steps[k].focus_area # steps[l].focus_area
        /\ \A i \in Q :
             (\A k \in 1..Len(steps) : at(k) # i)
             => \A k \in 1..Len(steps) : gap(i) <= steps[k].improvement_needed
        /\ recommendation.learning_path.total_estimated_weeks = SumWeeks(steps)

(* C26 as stated: the effort of a phase is max(2, gap * 8) weeks.          *)
C26_EffortIsEightTimesGap ==
    cmp_op = "path" =>
      StatedLearningPath(LAMBDA g, w : w * Unit = Max(2 * Unit, g * 8))

(* C26: the learning path has at most 3 phases, one per metric of both     *)
(* vectors whose gap expert - user exceeds 0.1, widest gaps first; each    *)
(* phase has priority high iff gap > 0.3 else medium and an effort of      *)
(* max(2, gap * 8) weeks with gap * 8 cut to whole weeks; the total is the *)
(* sum of the efforts, 0 without phases.                                   *)
C26_LearningPath ==
    cmp_op = "path" =>
      StatedLearningPath(LAMBDA g, w : w = Max(2, (g * 8) \div Unit))

(* Four gaps qualify, three phases are kept; gaps 0.8, 0.6, 0.5 give       *)
(* 6, 4 and 4 weeks.                                                       *)
C26_Witness ==
    /\ cmp_op = "path"
    /\ Len(recommendation.pattern_data) = 4
    /\ \A i \in 1..4 :
         /\ recommendation.pattern_data[i].metric \in DOMAIN user_metrics
         /\ recommendation.pattern_data[i].value
              - user_metrics[recommendation.pattern_data[i].metric] > 1
    /\ Len(recommendation.learning_path.learning_steps) = 3
    /\ recommendation.learning_path.learning_steps[1].improvement_needed = 8
    /\ recommendation.learning_path.learning_steps[2].improvement_needed = 6
    /\ recommendation.learning_path.learning_steps[3].improvement_needed = 5
    /\ recommendation.learning_path.total_estimated_weeks = 14

----------------------------------------------------------------------------
(* Requests over a pool with more peers than a strategy returns: one       *)
(* pattern per expert, every vector with one metric.                       *)

MaxPeers == 4

PeerUserVectors == { ("eye_contact" :> 5), ("eye_contact" :> 6) }
PeerPatternData ==
    { ("eye_contact" :> 4), ("eye_contact" :> 5), ("eye_contact" :> 7),
      ("eye_contact" :> 9) }

PeerPatternTables ==
    UNION { { [i \in 1..n |-> [ id |-> i, expert_id |-> i,
                                skill_type |-> "Public Speaking",
                                pattern_data |-> pd[i] ]] :
                pd \in [1..n -> PeerPatternData] } :
            n \in 0..MaxPeers }

PeerInit ==
    /\ user_metrics \in PeerUserVectors
    /\ skill_type = "Public Speaking"
    /\ expert_patterns \in PeerPatternTables
    /\ experts = {expert_patterns[i].expert_id : i \in 1..Len(expert_patterns)}
    /\ recent_comparisons = <<>>
    /\ num_recommendations = 5
    /\ recommendation = NoResult
    /\ top_n = 0 /\ matches = NoResult
    /\ cmp_op = "input"
    /\ CmpIdle /\ RtIdle /\ ClsIdle /\ ExtIdle /\ WsIdle

SpecPeer == PeerInit /\ [][GetRecommendations]_vars

(* The experts section 3.4 calls peers of the user, and the score stated   *)
(* for a peer: 1 - |delta| of the metric averages, in 1/600.               *)
PeerDelta(i) ==
    Abs(AverageScore(expert_patterns[i].pattern_data) - AverageScore(user_metrics))
Peers == {i \in 1..Len(expert_patterns) : PeerDelta(i) <= 120}
PeerNominations ==
    SelectSeq(recommendation.nominated, LAMBDA nom : nom.strategy = "similar_level")
PeerNominated == {PeerNominations[j].expert_id : j \in 1..Len(PeerNominations)}

C28_CandidatesConsistent ==
    (cmp_op = "recommended" /\ recommendation.error = "") =>
      \A j \in 1..Len(recommendation.recommendations) :
        LET c == recommendation.recommendations[j]
        IN  /\ \E k \in 1..Len(recommendation.nominated) :
                 LET nom == recommendation.nominated[k]
                 IN  /\ nom.strategy = c.strategy
                     /\ nom.expert_id = c.expert_id
                     /\ nom.recommendation_score = c.recommendation_score
                     /\ nom.similarity_reason = c.similarity_reason
            /\ c.final_score = c.recommendation_score * c.strategy_weight

----------------------------------------------------------------------------
(* The progress record of the user over session starts, analyses and ends. *)

EndedSessions == {sid \in 1..Len(sessions) : ~sessions[sid].is_active}

(* C29: total_sessions is the number of sessions that were ended (there is *)
(* no progress record before the first end); a step that ends a session    *)
(* makes best_session_score the larger of its former value and the final   *)
(* score reported for that session, so that it is the maximum final score  *)
(* of the ended sessions; an end request for a session already ended is    *)
(* answered 400 and changes neither the sessions nor the progress record;  *)
(* and no other step touches the progress record.                          *)
C29_ProgressCountsEndedSessions ==
    /\ [](IF progress = NoResult
          THEN EndedSessions = {}
          ELSE progress.total_sessions = Cardinality(EndedSessions))
    /\ [][ LET ending == {sid \in 1..Len(sessions) :
                            sessions[sid].is_active /\ ~sessions'[sid].is_active}
           IN  /\ ending = {} => progress' = progress
               /\ \A sid \in ending :
                    /\ end_response'.session_id = sid
                    /\ end_response'.final_score = sessions[sid].improvement_score
                    /\ progress'.best_session_score =
                         (IF progress = NoResult
                          THEN end_response'.final_score
                          ELSE Max(progress.best_session_score,
                                   end_response'.final_score))
               /\ (end_response' # end_response /\ end_response'.status = 400)
                    => /\ ~sessions[end_response'.session_id].is_active
                       /\ sessions' = sessions
                       /\ progress' = progress
               /\ (end_response' # end_response
                    /\ ~sessions[end_response'.session_id].is_active)
                    => end_response'.status = 400 ]_vars

(* Two sessions ended, the first with the higher score, and the last       *)
(* request an end that was rejected.                                       *)
C29_Witness ==
    /\ Len(sessions) = 2
    /\ EndedSessions = {1, 2}
    /\ sessions[1].improvement_score = 80
    /\ sessions[2].improvement_score = 40
    /\ progress # NoResult
    /\ progress.total_sessions = 2
    /\ progress.best_session_score = 80
    /\ end_response.status = 400

----------------------------------------------------------------------------
(* ConnectionManager (websocket_manager.py).  active_connections maps a    *)
(* user id to the list of its websockets; a websocket is the number of the *)
(* connect call that brought it.  broadcasts holds the broadcast_to_user   *)
(* calls in flight: each is suspended at `await connection.send_text`.     *)

MaxWebsockets == 3
MaxBroadcasts == 2

WsUsers == {1, 2}

ws_frame ==
    <<user_metrics, skill_type, cmp_op, cmp_vars, match_vars, rec_vars, rt_vars,
      cls_vars, ext_vars>>

(* lst.remove(x): the first occurrence goes *)
RemoveFirst(lst, x) ==
    LET at == CHOOSE i \in 1..Len(lst) :
                /\ lst[i] = x
                /\ \A j \in 1..(i - 1) : lst[j] # x
    IN  SubSeq(lst, 1, at - 1) \o SubSeq(lst, at + 1, Len(lst))

Contains(lst, x) == \E i \in 1..Len(lst) : lst[i] = x

(* del d[key] *)
Without(d, key) == [k \in DOMAIN d \ {key} |-> d[k]]

(* get_active_users: the keys of active_connections *)
get_active_users == DOMAIN active_connections

(* get_user_connection_count *)
get_user_connection_count(user_id) ==
    IF user_id \in DOMAIN active_connections
    THEN Len(active_connections[user_id]) ELSE 0

(* connect(websocket, user_id), from the return of websocket.accept() on;  *)
(* the welcome message that follows changes nothing, sent or not.          *)
Connect(user_id) ==
    /\ next_websocket < MaxWebsockets
    /\ next_websocket' = next_websocket + 1
    /\ active_connections' =
         IF user_id \in DOMAIN active_connections
         THEN [active_connections EXCEPT
                 ![user_id] = Append(@, next_websocket + 1)]
         ELSE active_connections @@ (user_id :> <<next_websocket + 1>>)
    /\ UNCHANGED broadcasts
    /\ UNCHANGED ws_frame

(* The list of a user after disconnect took its part away; an empty list   *)
(* is deleted with its key.                                                *)
CleanUp(user_id, remaining) ==
    IF remaining = <<>>
    THEN Without(active_connections, user_id)
    ELSE [active_connections EXCEPT ![user_id] = remaining]

(* disconnect(user_id): every connection of the user *)
Disconnect(user_id) ==
    /\ user_id \in DOMAIN active_connections
    /\ active_connections' = CleanUp(user_id, <<>>)
    /\ UNCHANGED <<broadcasts, next_websocket>>
    /\ UNCHANGED ws_frame

(* disconnect(user_id, websocket): that connection, if the user has it *)
DisconnectOne(user_id, websocket) ==
    /\ user_id \in DOMAIN active_connections
    /\ websocket <= next_websocket
    /\ active_connections' =
         CleanUp(user_id,
                 IF Contains(active_connections[user_id], websocket)
                 THEN RemoveFirst(active_connections[user_id], websocket)
                 ELSE active_connections[user_id])
    /\ UNCHANGED <<broadcasts, next_websocket>>
    /\ UNCHANGED ws_frame

(* broadcast_to_user(user_id, message) up to the first send: the list of   *)
(* the user is copied.  For a user without an entry the call does nothing. *)
BroadcastBegin(user_id) ==
    /\ Len(broadcasts) < MaxBroadcasts
    /\ user_id \in DOMAIN active_connections
    /\ broadcasts' = Append(broadcasts,
         [user_id |-> user_id, connections |-> active_connections[user_id]])
    /\ UNCHANGED <<active_connections, next_websocket>>
    /\ UNCHANGED ws_frame

(* One turn of the loop of broadcast b: send_text returns, or raises and   *)
(* the connection is removed from the user's list if it is still there.    *)
BroadcastSend(b) ==
    /\ b <= Len(broadcasts)
    /\ broadcasts[b].connections # <<>>
    /\ LET user_id    == broadcasts[b].user_id
           connection == Head(broadcasts[b].connections)
           current    == IF user_id \in DOMAIN active_connections
                         THEN active_connections[user_id] ELSE <<>>
       IN  /\ broadcasts' =
                [broadcasts EXCEPT ![b].connections = Tail(@)]
           /\ \E sent \in BOOLEAN :
                IF ~sent /\ Contains(current, connection)
                THEN active_connections' =
                       [active_connections EXCEPT
                          ![user_id] = RemoveFirst(current, connection)]
                ELSE UNCHANGED active_connections
    /\ UNCHANGED next_websocket
    /\ UNCHANGED ws_frame

WsInit ==
    /\ active_connections = <<>>
    /\ broadcasts = <<>>
    /\ next_websocket = 0
    /\ user_metrics = <<>>
    /\ skill_type = "Public Speaking"
    /\ cmp_op = "websocket"
    /\ CmpIdle /\ MatchIdle /\ RecIdle /\ RtIdle /\ ClsIdle /\ ExtIdle

WsNext ==
    \/ \E user_id \in WsUsers : Connect(user_id)
    \/ \E user_id \in WsUsers : Disconnect(user_id)
    \/ \E user_id \in WsUsers, websocket \in 1..MaxWebsockets :
         DisconnectOne(user_id, websocket)
    \/ \E user_id \in WsUsers : BroadcastBegin(user_id)
    \/ \E b \in 1..MaxBroadcasts : BroadcastSend(b)

SpecWs == WsInit /\ [][WsNext]_vars

(* C30: active_connections never maps a user id to an empty list, so       *)
(* get_active_users returns exactly the users with at least one live       *)
(* connection.                                                             *)
C30_NoUserWithoutConnection ==
    /\ \A user_id \in DOMAIN active_connections : active_connections[user_id] # <<>>
    /\ get_active_users = {user_id \in WsUsers : get_user_connection_count(user_id) > 0}

====
